---- MODULE Spec2Model ----
\* Verification model of the hint-utility layer of the Cairo VM
\* (src/src/vm/hints/hint_utils.rs): reference resolution with ap-tracking
\* correction, the execution-scope hints (enter/exit, memcpy loop) and the
\* range-check builtin lookup.
EXTENDS Integers, Naturals, Sequences, FiniteSets, TLC

\* ---------------------------------------------------------------------
\* Machine integers.  usize and i32 are scaled down to widths TLC can hold
\* (TLC integers are 32-bit); wrap-around and the overflow panics of a debug
\* build keep their shape.  An arithmetic overflow is a panic in a debug
\* build and a wrap in a release build: both outcomes are possible.
UsizeBits == 16
I32Bits == 8
Usize == 2^UsizeBits
I32Mod == 2^I32Bits
I32Min == -(2^(I32Bits - 1))
I32Max == 2^(I32Bits - 1) - 1

\* `x as usize` for an i32 x (sign extension)
AsUsize(x) == IF x >= 0 THEN x ELSE x + Usize

\* `x as i32` for a usize x (truncation)
AsI32(x) == LET low == x % I32Mod
            IN IF low > I32Max THEN low - I32Mod ELSE low

\* Results of machine arithmetic: a value, or a panic
Val(x) == [panic |-> FALSE, v |-> x]
PanicV == [panic |-> TRUE, v |-> 0]

\* i32 `a + b`
I32Add(a, b) == IF a + b >= I32Min /\ a + b <= I32Max
                  THEN {Val(a + b)}
                  ELSE {PanicV, Val(AsI32((a + b) % I32Mod))}

\* usize `a - b`
UsizeSub(a, b) == IF a >= b THEN {Val(a - b)} ELSE {PanicV, Val((a - b) % Usize)}

\* usize `a + b`
UsizeAdd(a, b) == IF a + b < Usize THEN {Val(a + b)} ELSE {PanicV, Val((a + b) % Usize)}

\* i32::abs
I32Abs(x) == IF x = I32Min THEN {PanicV, Val(I32Min)}
             ELSE IF x < 0 THEN {Val(-x)} ELSE {Val(x)}

\* ---------------------------------------------------------------------
\* MaybeRelocatable
Rel(s, o) == [kind |-> "rel", seg |-> s, off |-> o, val |-> 0]
IntV(v) == [kind |-> "int", seg |-> 0, off |-> 0, val |-> v]
Empty == [kind |-> "empty", seg |-> 0, off |-> 0, val |-> 0]

\* Outcomes of compute_addr_from_reference: Ok(Some(addr)), Ok(None), Err(e)
\* or a panic.  `base` records the base offset the resolution used (NoBase
\* when none was computed).
NoBase == -1000
NoAddr == Empty
OkSome(a, b) == [tag |-> "some", addr |-> a, err |-> "", base |-> b]
OkNone(b) == [tag |-> "none", addr |-> NoAddr, err |-> "", base |-> b]
ErrO(e, b) == [tag |-> "err", addr |-> NoAddr, err |-> e, base |-> b]
PanicO(b) == [tag |-> "panic", addr |-> NoAddr, err |-> "", base |-> b]

\* ApTracking { group, offset }, both usize; NoTracking stands for None
NoTracking == [group |-> -1, offset |-> -1]
Track(g, o) == [group |-> g, offset |-> o]

\* HintReference.immediate = None
NoImm == -1000

\* memory.get(addr): absent cells read as Empty
MemGet(mem, a) == IF <<a.seg, a.off>> \in DOMAIN mem
                    THEN mem[<<a.seg, a.off>>] ELSE Empty

\* apply_ap_tracking_correction: a set of outcomes, each
\* [kind |-> "ok", rel |-> corrected ap], a panic, or InvalidTrackingGroup
CorrOk(r) == [kind |-> "ok", rel |-> r]
CorrPanic == [kind |-> "panic", rel |-> Empty]
CorrGroup == [kind |-> "group", rel |-> Empty]
apply_ap_tracking_correction_NoGroupCheck(ap, refTr, hintTr) ==
  UNION { IF d.panic THEN {CorrPanic}
          ELSE { IF c.panic THEN CorrPanic ELSE CorrOk(Rel(ap.seg, c.v))
                 : c \in UsizeSub(ap.off, d.v) }
          : d \in UsizeSub(hintTr.offset, refTr.offset) }
apply_ap_tracking_correction(ap, refTr, hintTr) ==
  IF refTr.group # hintTr.group
    THEN {CorrGroup}
    ELSE UNION { IF d.panic THEN {CorrPanic}
                 ELSE { IF c.panic THEN CorrPanic ELSE CorrOk(Rel(ap.seg, c.v))
                        : c \in UsizeSub(ap.off, d.v) }
                 : d \in UsizeSub(hintTr.offset, refTr.offset) }

\* Direct case of compute_addr_from_reference (lines 132-137):
\* (base.offset as i32 + offset1 + offset2) as usize
DirectResult_NoOffset2(r, b) ==
  { IF s1.panic THEN PanicO(b.off) ELSE OkSome(Rel(b.seg, AsUsize(s1.v)), b.off)
    : s1 \in I32Add(AsI32(b.off), r.offset1) }
DirectResult(r, b) ==
  UNION { IF s1.panic THEN {PanicO(b.off)}
          ELSE { IF s2.panic THEN PanicO(b.off)
                 ELSE OkSome(Rel(b.seg, AsUsize(s2.v)), b.off)
                 : s2 \in I32Add(s1.v, r.offset2) }
          : s1 \in I32Add(AsI32(b.off), r.offset1) }

\* The part of compute_addr_from_reference after the base is chosen
\* (lines 126-164), for a relocatable base b
ResolveFromBase(r, b, mem) ==
  UNION { IF ab.panic THEN {PanicO(b.off)}
          ELSE IF r.offset1 < 0 /\ b.off < AsUsize(ab.v)
            THEN {OkNone(b.off)}
          ELSE IF ~r.inner_dereference
            THEN DirectResult(r, b)
          ELSE UNION { IF s1.panic THEN {PanicO(b.off)}
                       ELSE LET cell == MemGet(mem, Rel(b.seg, AsUsize(s1.v)))
                            IN IF cell.kind # "rel" THEN {OkNone(b.off)}
                               ELSE IF r.immediate # NoImm
                                 THEN IF r.immediate < 0
                                        THEN {ErrO("BigintToUsizeFail", b.off)}
                                        ELSE { IF v.panic THEN PanicO(b.off)
                                               ELSE OkSome(Rel(cell.seg, v.v), b.off)
                                               : v \in UsizeAdd(cell.off, r.immediate) }
                               ELSE { IF s2.panic THEN PanicO(b.off)
                                      ELSE OkSome(Rel(cell.seg, AsUsize(s2.v)), b.off)
                                      : s2 \in I32Add(AsI32(cell.off), r.offset2) }
                       : s1 \in I32Add(AsI32(b.off), r.offset1) }
          : ab \in (IF r.offset1 < 0 THEN I32Abs(r.offset1) ELSE {Val(0)}) }

\* compute_addr_from_reference(hint_reference, run_context, memory, hint_ap_tracking)
compute_addr_from_reference(r, fp, ap, mem, hintTr) ==
  IF r.register = "FP"
    THEN IF fp.kind = "rel" THEN ResolveFromBase(r, fp, mem) ELSE {OkNone(NoBase)}
    ELSE IF hintTr = NoTracking \/ r.ap_tracking_data = NoTracking
      THEN {ErrO("NoneApTrackingData", NoBase)}
    ELSE IF ap.kind # "rel"
      THEN {ErrO("InvalidApValue", NoBase)}
    ELSE UNION { IF c.kind = "group" THEN {ErrO("InvalidTrackingGroup", NoBase)}
                 ELSE IF c.kind = "panic" THEN {PanicO(NoBase)}
                 ELSE ResolveFromBase(r, c.rel, mem)
                 : c \in apply_ap_tracking_correction(ap, r.ap_tracking_data, hintTr) }

\* ---------------------------------------------------------------------
\* State.  The first group is the input of one reference resolution and its
\* result; the second the execution-scope stack and the memory the memcpy
\* hints read and write; the third the builtin list and a lookup result.
VARIABLES hint_reference, fp, ap, memory, hint_ap_tracking, addr_result,
          scopes, last_op, last_flag, num_segments,
          builtin_runners, lookup_result

vars == <<hint_reference, fp, ap, memory, hint_ap_tracking, addr_result,
          scopes, last_op, last_flag, num_segments, builtin_runners, lookup_result>>
addr_vars == <<hint_reference, fp, ap, memory, hint_ap_tracking, addr_result>>
scope_vars == <<scopes, last_op, last_flag, num_segments>>
lookup_vars == <<builtin_runners, lookup_result>>

\* ---------------------------------------------------------------------
\* Reference resolution: inputs drawn from bounded sets, then one call.
Offset1Vals == {I32Min, -6, -2, -1, 0, 1}
Offset2Vals == {-9, 0, 3}
ImmediateVals == {NoImm, 2, -1}
RefTrackingVals == {NoTracking, Track(0, 1), Track(0, 5), Track(1, 1)}
HintTrackingVals == {NoTracking, Track(0, 3), Track(1, 3)}
FpVals == {Rel(1, 5), Rel(1, 1), IntV(5)}
ApVals == {Rel(1, 5), Rel(1, 1), IntV(5)}
AddrMemDom == {<<1, 3>>, <<1, 4>>}
AddrCellVals == {Empty, IntV(4), Rel(2, 7)}

HintReferences ==
  [register : {"FP", "AP"}, offset1 : Offset1Vals, offset2 : Offset2Vals,
   dereference : BOOLEAN, inner_dereference : BOOLEAN,
   ap_tracking_data : RefTrackingVals, immediate : ImmediateVals]

NoRangeCheckBuiltin == 0
NotLookedUp == -1

\* Segments allocated before the hints run (segment 2 is the one ids.len's
\* neighbouring pointer cell refers to)
InitSegments == 3

NotComputed == [tag |-> "init", addr |-> NoAddr, err |-> "", base |-> NoBase]

AddrInit ==
  /\ hint_reference \in HintReferences
  /\ fp \in FpVals
  /\ ap \in ApVals
  /\ memory \in [AddrMemDom -> AddrCellVals]
  /\ hint_ap_tracking \in HintTrackingVals
  /\ addr_result = NotComputed
  /\ scopes = <<>> /\ last_op = "none" /\ last_flag = -1
  /\ num_segments = InitSegments
  /\ builtin_runners = <<>> /\ lookup_result = NotLookedUp

\* One call of compute_addr_from_reference
ComputeAddr ==
  /\ addr_result = NotComputed
  /\ addr_result' \in compute_addr_from_reference(hint_reference, fp, ap,
                                                   memory, hint_ap_tracking)
  /\ UNCHANGED <<hint_reference, fp, ap, memory, hint_ap_tracking>>
  /\ UNCHANGED scope_vars /\ UNCHANGED lookup_vars

AddrNext == ComputeAddr
AddrSpec == AddrInit /\ [][AddrNext]_vars

\* ---------------------------------------------------------------------
\* Properties of reference resolution
Done == addr_result # NotComputed
Ref == hint_reference
BothTracked == Ref.ap_tracking_data # NoTracking /\ hint_ap_tracking # NoTracking
SameGroup == Ref.ap_tracking_data.group = hint_ap_tracking.group

\* The base a reference is resolved against, in unbounded signed arithmetic:
\* fp, or ap corrected by the ap-tracking difference; NoBase when there is none
MathBaseOff ==
  IF Ref.register = "FP"
    THEN IF fp.kind = "rel" THEN fp.off ELSE NoBase
    ELSE IF BothTracked /\ SameGroup /\ ap.kind = "rel"
           THEN ap.off - (hint_ap_tracking.offset - Ref.ap_tracking_data.offset)
           ELSE NoBase
MathBaseSeg == IF Ref.register = "FP" THEN fp.seg ELSE ap.seg
HasBase == MathBaseOff # NoBase

\* C1: for an FP reference without inner dereference, whatever the
\* ap-tracking inputs, the result is the address
\* (fp.segment, fp.offset + offset1 + offset2).
C1_Original ==
  (Done /\ Ref.register = "FP" /\ ~Ref.inner_dereference /\ fp.kind = "rel")
    => addr_result.tag = "some"
       /\ addr_result.addr = Rel(fp.seg, fp.off + Ref.offset1 + Ref.offset2)

\* C1, read with the underflow rule of the spec (section 4.3 (a), claim C2):
\* for an FP reference without inner dereference, whatever the ap-tracking
\* inputs, the result is Ok(None) when offset1 is negative with
\* |offset1| > fp.offset, and otherwise the address
\* (fp.segment, fp.offset + offset1 + offset2), the sum taken in signed
\* arithmetic.
C1_FpDirectSpec ==
  (Done /\ Ref.register = "FP" /\ ~Ref.inner_dereference /\ fp.kind = "rel")
    => IF Ref.offset1 < 0 /\ fp.off < -Ref.offset1
         THEN addr_result.tag = "none"
         ELSE addr_result.tag = "some"
              /\ addr_result.addr = Rel(fp.seg, fp.off + Ref.offset1 + Ref.offset2)

\* C2: when offset1 is negative and its magnitude exceeds the (corrected) base
\* offset, the result is Ok(None) for every register and flag combination;
\* never a panic nor a wrapped address.
C2_Underflow ==
  (Done /\ HasBase /\ Ref.offset1 < 0 /\ -Ref.offset1 > MathBaseOff)
    => addr_result.tag = "none"

\* C3: an AP reference with both ap-trackings present and different groups
\* fails with InvalidTrackingGroup, never giving an address or None.  The
\* VM's ap register is always a relocatable (spec 4.3 types base_ap as an
\* address); integer ap values, which run_context.ap's type admits, are
\* outside the claim.
C3_TrackingGroup ==
  (Done /\ Ref.register = "AP" /\ BothTracked /\ ~SameGroup /\ ap.kind = "rel")
    => addr_result = ErrO("InvalidTrackingGroup", NoBase)

C3_Witness ==
  Done /\ Ref.register = "AP" /\ BothTracked /\ ~SameGroup /\ ap.kind = "rel"

\* C4: for an inner-dereference reference without immediate whose
\* intermediate cell (base.segment, base.offset + offset1) holds an address
\* (s, o), the result is (s, o + offset2); Ok(None) when that cell is empty
\* or holds an integer.
C4_InnerDeref ==
  (Done /\ Ref.inner_dereference /\ Ref.immediate = NoImm /\ HasBase
        /\ MathBaseOff + Ref.offset1 >= 0)
    => LET cell == MemGet(memory, Rel(MathBaseSeg, MathBaseOff + Ref.offset1))
       IN IF cell.kind = "rel"
            THEN addr_result.tag = "some"
                 /\ addr_result.addr = Rel(cell.seg, cell.off + Ref.offset2)
            ELSE addr_result.tag = "none"

\* C8: in the direct case the result offset is the signed sum
\* base.offset + offset1 + offset2, never a wrapped value.
C8_DirectSigned ==
  (Done /\ ~Ref.inner_dereference /\ addr_result.tag = "some")
    => addr_result.addr.off = addr_result.base + Ref.offset1 + Ref.offset2

\* C9: for an AP reference with equal groups the base is
\* (ap.segment, ap.offset - (call_site.offset - reference.offset)); a missing
\* tracking datum gives NoneApTrackingData.
C9_ApCorrection ==
  /\ (Done /\ Ref.register = "AP" /\ BothTracked /\ SameGroup /\ ap.kind = "rel")
       => addr_result.tag # "panic" /\ addr_result.base = MathBaseOff
  /\ (Done /\ Ref.register = "AP" /\ ~BothTracked)
       => addr_result = ErrO("NoneApTrackingData", NoBase)

\* ---------------------------------------------------------------------
\* Execution scopes and the memcpy hints.  A scope is the binding of "n"
\* (Empty when unbound) plus two history fields: len, the value
\* memcpy_enter_scope bound (NoLen for other scopes), and k, the number of
\* successful memcpy_continue_copying calls on the scope.
MaxDepth == 3
\* memcpy_continue_copying is explored until n reaches -MaxUnderrun
MaxUnderrun == 2
NoLen == -1000
EmptyScope == [n |-> Empty, len |-> NoLen, k |-> 0]

\* ExecutionScopesProxy::enter_scope / exit_scope / current scope update
ScopesEnter(st, sc) == Append(st, sc)
ScopesExit_PopMain(st) == [ok |-> TRUE, st |-> SubSeq(st, 1, Len(st) - 1)]
ScopesExit(st) ==
  IF Len(st) = 1 THEN [ok |-> FALSE, st |-> st]
                 ELSE [ok |-> TRUE, st |-> SubSeq(st, 1, Len(st) - 1)]
ScopesSetTop(st, sc) == [st EXCEPT ![Len(st)] = sc]

\* Memory of the memcpy runs: segment 1, the frame holding ids.len and
\* ids.continue_copying
ScopeMemInit == (<<1, 0>> :> IntV(2)) @@ (<<1, 1>> :> IntV(0)) @@
                (<<1, 2>> :> Rel(2, 0)) @@ (<<1, 3>> :> Empty) @@
                (<<1, 4>> :> Empty)
ScopeFp == Rel(1, 0)
LenOffsets == {0, 1, 2, 3}
FlagOffsets == {1, 3, 4}

\* HintReference::new_simple(offset1): fp-based, dereferenced
new_simple(offset1) ==
  [register |-> "FP", offset1 |-> offset1, offset2 |-> 0, dereference |-> TRUE,
   inner_dereference |-> FALSE, ap_tracking_data |-> NoTracking,
   immediate |-> NoImm]

\* Memory::get_integer: the integer in the cell, or an error
MemGetInteger(mem, a) ==
  LET c == MemGet(mem, a)
  IN IF c.kind = "int" THEN [ok |-> TRUE, v |-> c.val] ELSE [ok |-> FALSE, v |-> 0]

\* Memory::insert_value, write-once: fails when the cell holds another value
MemInsertValue(mem, a, v) ==
  IF <<a.seg, a.off>> \in DOMAIN mem
     /\ (mem[<<a.seg, a.off>>] = Empty \/ mem[<<a.seg, a.off>>] = v)
    THEN [ok |-> TRUE, mem |-> [mem EXCEPT ![<<a.seg, a.off>>] = v]]
    ELSE [ok |-> FALSE, mem |-> mem]

\* get_relocatable_from_var_name for a reference: the outcome of
\* compute_addr_from_reference, which must be Some(relocatable)
VarAddrOk(res) == res.tag = "some" /\ res.addr.kind = "rel"

ScopeErrors == {"MainScopeError", "ExpectedInteger", "VariableNotInScope", "MemoryError",
                "WriteOnceError"}
Failed == last_op \in ScopeErrors

\* enter_scope (lines 249-254)
enter_scope ==
  /\ ~Failed /\ Len(scopes) < MaxDepth
  /\ scopes' = ScopesEnter(scopes, EmptyScope)
  /\ last_op' = "enter"
  /\ UNCHANGED last_flag

\* exit_scope (lines 258-262)
exit_scope ==
  /\ ~Failed
  /\ LET r == ScopesExit(scopes)
     IN /\ scopes' = r.st
        /\ last_op' = IF r.ok THEN "exit" ELSE "MainScopeError"
  /\ UNCHANGED last_flag

\* memcpy_enter_scope (lines 266-276): n = ids.len
memcpy_enter_scope ==
  /\ ~Failed /\ Len(scopes) < MaxDepth
  /\ \E o \in LenOffsets :
       \E res \in compute_addr_from_reference(new_simple(o), ScopeFp, ap,
                                              memory, Track(0, 0)) :
         LET g == MemGetInteger(memory, res.addr)
         IN IF VarAddrOk(res) /\ g.ok
              THEN /\ scopes' = ScopesEnter(scopes, [n |-> IntV(g.v), len |-> g.v, k |-> 0])
                   /\ last_op' = "memcpy_enter"
              ELSE /\ scopes' = scopes
                   /\ last_op' = "ExpectedInteger"
  /\ UNCHANGED last_flag

\* `if new_n.is_positive() { 1 } else { 0 }`
ContinueFlag_NonNeg(new_n) == IF new_n >= 0 THEN 1 ELSE 0
ContinueFlag(new_n) == IF new_n > 0 THEN 1 ELSE 0

\* memcpy_continue_copying (lines 283-314): n -= 1, then
\* ids.continue_copying = 1 if n > 0 else 0, then n stored back
memcpy_continue_copying_UpdateFirst ==
  /\ ~Failed
  /\ LET top == scopes[Len(scopes)]
     IN IF top.n.kind # "int"
          THEN /\ last_op' = "VariableNotInScope"
               /\ UNCHANGED <<scopes, memory, last_flag>>
          ELSE /\ top.n.val > -MaxUnderrun
               /\ LET new_n == top.n.val - 1
                      flag == ContinueFlag(new_n)
                  IN \E o \in FlagOffsets :
                     \E res \in compute_addr_from_reference(new_simple(o), ScopeFp,
                                                            ap, memory, Track(0, 0)) :
                       LET w == MemInsertValue(memory, res.addr, IntV(flag))
                       IN /\ scopes' = ScopesSetTop(scopes, [top EXCEPT !.n = IntV(new_n), !.k = @ + 1])
                          /\ IF VarAddrOk(res) /\ w.ok
                               THEN /\ memory' = w.mem
                                    /\ last_op' = "continue_ok"
                                    /\ last_flag' = flag
                               ELSE /\ last_op' = "WriteOnceError"
                                    /\ UNCHANGED <<memory, last_flag>>
memcpy_continue_copying ==
  /\ ~Failed
  /\ LET top == scopes[Len(scopes)]
     IN IF top.n.kind # "int"
          THEN /\ last_op' = "VariableNotInScope"
               /\ UNCHANGED <<scopes, memory, last_flag>>
          ELSE /\ top.n.val > -MaxUnderrun
               /\ LET new_n == top.n.val - 1
                      flag == ContinueFlag(new_n)
                  IN \E o \in FlagOffsets :
                     \E res \in compute_addr_from_reference(new_simple(o), ScopeFp,
                                                            ap, memory, Track(0, 0)) :
                       LET w == MemInsertValue(memory, res.addr, IntV(flag))
                       IN IF VarAddrOk(res) /\ w.ok
                            THEN /\ memory' = w.mem
                                 /\ scopes' = ScopesSetTop(scopes,
                                                [top EXCEPT !.n = IntV(new_n), !.k = @ + 1])
                                 /\ last_op' = "continue_ok"
                                 /\ last_flag' = flag
                            ELSE /\ last_op' = "WriteOnceError"
                                 /\ UNCHANGED <<scopes, memory, last_flag>>

\* insert_value_into_ap (lines 199-212): memory[ap] = value, where ap must
\* be a relocatable (MemoryError otherwise) and the write is write-once
insert_value_into_ap(mem, apv, v) ==
  IF apv.kind # "rel" THEN [ok |-> FALSE, mem |-> mem]
  ELSE MemInsertValue(mem, apv, v)

\* add_segment (lines 243-246): memory[ap] = segments.add().  The new
\* segment is allocated (MemoryProxy::add_segment) before the write.
add_segment ==
  /\ ~Failed
  /\ LET base == Rel(num_segments, 0)
         w == insert_value_into_ap(memory, ap, base)
     IN /\ num_segments' = num_segments + 1
        /\ IF w.ok
             THEN /\ memory' = w.mem
                  /\ last_op' = "add_segment"
             ELSE /\ last_op' = "MemoryError"
                  /\ UNCHANGED memory
  /\ UNCHANGED <<scopes, last_flag>>

\* Registers when the scope hints run: fp at the frame holding ids.len and
\* ids.continue_copying; ap at a cell of that frame (the VM keeps fp and ap
\* relocatable)
ScopeApVals == {Rel(1, 0), Rel(1, 3)}

AddrFixed ==
  /\ hint_reference = new_simple(0) /\ fp = ScopeFp /\ ap \in ScopeApVals
  /\ hint_ap_tracking = NoTracking /\ addr_result = NotComputed

Init ==
  /\ AddrFixed
  /\ num_segments = InitSegments
  /\ builtin_runners = <<>> /\ lookup_result = NotLookedUp
  /\ memory = ScopeMemInit
  /\ scopes = <<EmptyScope>>
  /\ last_op = "none"
  /\ last_flag = -1

\* The scope hints leave the reference-resolution inputs and the builtins alone
ScopeFrame ==
  /\ UNCHANGED <<hint_reference, fp, ap, hint_ap_tracking, addr_result>>
  /\ UNCHANGED lookup_vars

Next ==
  \/ enter_scope /\ UNCHANGED <<memory, num_segments>> /\ ScopeFrame
  \/ exit_scope /\ UNCHANGED <<memory, num_segments>> /\ ScopeFrame
  \/ memcpy_enter_scope /\ UNCHANGED <<memory, num_segments>> /\ ScopeFrame
  \/ memcpy_continue_copying /\ UNCHANGED num_segments /\ ScopeFrame
  \/ add_segment /\ ScopeFrame

Spec == Init /\ [][Next]_vars

\* ---------------------------------------------------------------------
\* get_range_check_builtin over a list of (name, builtin) pairs; a builtin is
\* represented by its concrete runner type and its position in the list.
MaxBuiltins == 3
BuiltinNames == {"output", "pedersen", "range_check"}
RunnerTypes == {"OutputBuiltinRunner", "HashBuiltinRunner", "RangeCheckBuiltinRunner"}

\* any ordered list of (name, runner) pairs, as the function's type admits
BuiltinLists ==
  UNION { [1..len -> [name : BuiltinNames, runner : RunnerTypes]]
          : len \in 0..MaxBuiltins }

\* Result: the position of the returned runner, or NoRangeCheckBuiltin
\* the `for (name, builtin) in builtin_runners` loop from position i
RECURSIVE ScanRangeCheck(_, _)
ScanRangeCheck(b, i) ==
  IF i > Len(b) THEN NoRangeCheckBuiltin
  ELSE IF b[i].name = "range_check" /\ b[i].runner = "RangeCheckBuiltinRunner"
    THEN i
    ELSE ScanRangeCheck(b, i + 1)
get_range_check_builtin_FromSecond(b) == ScanRangeCheck(b, 2)
get_range_check_builtin(b) == ScanRangeCheck(b, 1)

LookupInit ==
  /\ builtin_runners \in BuiltinLists
  /\ lookup_result = NotLookedUp
  /\ hint_reference = new_simple(0) /\ fp = ScopeFp /\ ap = ScopeFp
  /\ hint_ap_tracking = NoTracking /\ addr_result = NotComputed
  /\ memory = ScopeMemInit
  /\ scopes = <<>> /\ last_op = "none" /\ last_flag = -1
  /\ num_segments = InitSegments

LookupRangeCheck ==
  /\ lookup_result = NotLookedUp
  /\ lookup_result' = get_range_check_builtin(builtin_runners)
  /\ UNCHANGED builtin_runners
  /\ UNCHANGED addr_vars /\ UNCHANGED scope_vars

LookupNext == LookupRangeCheck
LookupSpec == LookupInit /\ [][LookupNext]_vars

\* The builtin lists the runner builds: distinct names, each registered with
\* its own runner type
RunnerOf(name) ==
  CASE name = "output" -> "OutputBuiltinRunner"
    [] name = "pedersen" -> "HashBuiltinRunner"
    [] name = "range_check" -> "RangeCheckBuiltinRunner"
ProducibleBuiltins(b) ==
  /\ \A i \in 1..Len(b) : b[i].runner = RunnerOf(b[i].name)
  /\ \A i, j \in 1..Len(b) : i # j => b[i].name # b[j].name

\* C7: on the builtin lists the runner builds, the lookup returns the builtin
\* of the earliest entry named "range_check", and fails with
\* NoRangeCheckBuiltin when no entry has that name.
C7_Original ==
  (lookup_result # NotLookedUp /\ ProducibleBuiltins(builtin_runners))
    => LET named == {i \in 1..Len(builtin_runners) : builtin_runners[i].name = "range_check"}
       IN IF named = {} THEN lookup_result = NoRangeCheckBuiltin
          ELSE lookup_result = CHOOSE i \in named : \A j \in named : i <= j

C7_Witness ==
  /\ ProducibleBuiltins(builtin_runners)
  /\ lookup_result = 2
  /\ builtin_runners[1].name # "range_check"

\* ---------------------------------------------------------------------
\* Properties of the scope hints
Top == scopes[Len(scopes)]

\* C5: the scope stack always holds at least one scope, and exit_scope on a
\* stack of one scope fails with the main-scope error leaving it unchanged.
C5_MainScope ==
  /\ [](Len(scopes) >= 1)
  /\ [][(exit_scope /\ Len(scopes) = 1)
          => scopes' = scopes /\ last_op' = "MainScopeError"]_vars

C5_Witness == last_op = "MainScopeError" /\ Len(scopes) = 1

\* C6: after memcpy_enter_scope bound n = len and k >= 1 successful
\* memcpy_continue_copying calls, the k-th call wrote 1 if len - k > 0 and 0
\* otherwise, and n = len - k.
C6_MemcpyCount ==
  /\ \A i \in 1..Len(scopes) :
       scopes[i].len # NoLen => scopes[i].n = IntV(scopes[i].len - scopes[i].k)
  /\ last_op = "continue_ok"
       => /\ Top.len # NoLen /\ Top.k >= 1
          /\ last_flag = IF Top.len - Top.k > 0 THEN 1 ELSE 0

C6_Witness == last_op = "continue_ok" /\ Top.len = 2 /\ Top.k = 2 /\ last_flag = 0

\* C10: a failing memcpy_continue_copying (n unbound, or the write of
\* continue_copying rejected) leaves n in the current scope unchanged.
C10_NoPartialUpdate ==
  [][(memcpy_continue_copying /\ last_op' \in {"VariableNotInScope", "WriteOnceError"})
       => scopes' = scopes]_vars

C10_Witness == last_op = "WriteOnceError" /\ Top.len # NoLen

====
